---- MODULE Spec2Model ----
(***************************************************************************)
(* Model of the user controller (registerUser, loginUser, logoutUser,      *)
(* refreshAccessToken, getWatchHistory, pushVideoToWatchHistory) and of    *)
(* the verifyOtp middleware of the video-streaming backend.                *)
(*                                                                         *)
(* Every request is handled by its own async task; the awaits on the       *)
(* document store are the only suspension points, so each action below is  *)
(* one store operation together with the synchronous code that follows it  *)
(* up to the next await.                                                   *)
(***************************************************************************)
EXTENDS Integers, Sequences, FiniteSets, TLC

\* ------------------------------------------------------------------ bounds
\* Longest watch history the model lets a viewer accumulate.
MaxHist == 3
\* Last instant of the model's clock.
MaxNow == 1
\* Number of refresh tokens the model lets the server sign.
MaxTokens == 3
\* Highest image URL the model lets the media storage hand out.
MaxUrls == 4

\* ------------------------------------------------------- program constants
DefaultPage == 1
DefaultLimit == 10
BadRequest == 400
Unauthorized == 401
NotFound == 404
Conflict == 409
ServerError == 500
Ok == 200
Created == 201

\* ------------------------------------------------------------ input domains
\* Concurrent request slots (each an independent async handler invocation).
Reqs == {"r1", "r2"}
\* Identifiers that are syntactically valid ObjectIds; "v3" names no video.
ObjectIds == {"v1", "v2", "v3"}
VideoIds == {"v1", "v2"}
\* What a client may put in :videoId.
VideoIdInputs == ObjectIds \cup {"not-an-id"}
\* What a client may put in ?page= and ?limit= ("" is an absent parameter).
PageInputs == {"", "-1", "0", "1", "2"}
LimitInputs == {"-1", "0", "1", "2", "10"}
\* Addresses an OTP can be requested for; what a client may put in body.email.
Emails == {"a@x.io", "b@x.io"}
EmailInputs == Emails \cup {""}
\* Codes the OTP channel hands out; what a client may put in body.otp.
Codes == {"1234"}
OtpInputs == Codes \cup {"9999", ""}
\* The flows an OTP can be requested for.
Contexts == {"register", "forgot-password"}
\* The route verifyOtp is mounted on, as seen in req.url.
Urls == {"/register"}
\* What a client may put in body.username.
UsernameInputs == {"bob", "Bob", "amy", ""}
\* req.params.username of getUserChannelProfile: a stored name in another
\* case, a name nobody has, a blank one.
ProfileUsernameInputs == {"Bob", "zed", ""}
\* req.file.mimetype of an uploaded file.
Mimetypes == {"image/png", "image/gif", "text/plain"}
\* req.params.channelId of the subscription toggle: the ids of two users.
ChannelIdInputs == {1, 2}
\* What a client may put in the login body.
LoginUsernameInputs == {"bob", "amy", ""}
PasswordInputs == {"pw", "wrong"}

VARIABLES users, videos, otps, now, issued, nextSerial, pc, req, res,
          subscriptions, cloud, tmpFiles, nextUrl

vars == <<users, videos, otps, now, issued, nextSerial, pc, req, res,
          subscriptions, cloud, tmpFiles, nextUrl>>

\* The Relation Store, the media CDN and the local upload directory: what the
\* handlers of the other families leave alone.
others == <<subscriptions, cloud, tmpFiles, nextUrl>>

\* ------------------------------------------------------------------ values
NoToken == [uid |-> 0, serial |-> 0]
NoOtp == [code |-> "", context |-> "", expires |-> 0]
NoUser == 0
\* No image URL (the field is unset).
NoUrl == 0
\* req.file is undefined: the request carries no file.
NoFile == ""

NoReq ==
    [kind |-> "", user |-> NoUser, queries |-> <<>>,
     videoId |-> "", page |-> "", limit |-> "",
     url |-> "", email |-> "", otp |-> "", username |-> "", password |-> "",
     otpData |-> NoOtp, verifyOtp |-> FALSE,
     incomingRefreshToken |-> NoToken, refreshToken |-> NoToken,
     channel |-> NoUser, subscribers |-> {},
     file |-> NoFile, secure_url |-> NoUrl, oldImage |-> NoUrl]

NoRes ==
    [status |-> 0, message |-> "", watchHistory |-> <<>>, refreshToken |-> NoToken,
     subscribersCount |-> 0, channelsSubscibedToCount |-> 0, isSubscribed |-> FALSE,
     avatar |-> NoUrl, coverImage |-> NoUrl]

UserIds == 1..Len(users)

\* ------------------------------------------------------------ pure helpers
\* parseInt(s, 10): NaN for a string that does not start with a number.
IsNaN(s) == s \notin {"-1", "0", "1", "2", "10"}

ParseInt(s) ==
    CASE s = "-1" -> -1
      [] s = "0" -> 0
      [] s = "1" -> 1
      [] s = "2" -> 2
      [] s = "10" -> 10
      [] OTHER -> 0

\* parseInt(s, 10) || d : NaN and 0 are falsy.
ParseIntOr(s, d) == IF IsNaN(s) \/ ParseInt(s) = 0 THEN d ELSE ParseInt(s)

IsValidObjectId(id) == id \in ObjectIds

RECURSIVE ReverseArray(_)
ReverseArray(s) ==
    IF s = <<>> THEN <<>> ELSE Append(ReverseArray(Tail(s)), Head(s))

\* The inner $lookup of one unwound identifier: the videos with that _id that
\* are published (identifiers are unique, so at most one).
LookupPublished(id) ==
    IF id \in VideoIds /\ videos[id] = "published" THEN <<id>> ELSE <<>>

\* $unwind -> $lookup -> $unwind -> $replaceRoot over the reversed array.
RECURSIVE UnwindLookup(_)
UnwindLookup(s) ==
    IF s = <<>> THEN <<>> ELSE LookupPublished(Head(s)) \o UnwindLookup(Tail(s))

Min(a, b) == IF a < b THEN a ELSE b

\* $skip then $limit.
SkipLimit(s, skip, limit) ==
    IF skip >= Len(s) THEN <<>> ELSE SubSeq(s, skip + 1, Min(Len(s), skip + limit))

SkipOf(page, limit) == (page - 1) * limit

\* Mutant: the $reverseArray stage is missing (oldest first).
WatchHistoryPipelineNoReverse(u, page, limit) ==
    SkipLimit(UnwindLookup(users[u].watchHistory), SkipOf(page, limit), limit)

\* The aggregation pipeline of getWatchHistory for viewer u.
WatchHistoryPipeline(u, page, limit) ==
    SkipLimit(UnwindLookup(ReverseArray(users[u].watchHistory)),
              SkipOf(page, limit), limit)

\* ------------------------------------------------------------------- state
Init ==
    /\ users = << [username |-> "bob", email |-> "a@x.io", password |-> "pw",
                   refreshToken |-> NoToken, watchHistory |-> <<>>,
                   avatar |-> NoUrl, coverImage |-> NoUrl] >>
    /\ videos = [v \in VideoIds |-> "published"]
    /\ otps = [e \in Emails |-> NoOtp]
    /\ now = 0
    /\ issued = {}
    /\ nextSerial = 1
    /\ pc = [r \in Reqs |-> "idle"]
    /\ req = [r \in Reqs |-> NoReq]
    /\ res = [r \in Reqs |-> NoRes]
    /\ subscriptions = {}
    /\ cloud = {}
    /\ tmpFiles = {}
    /\ nextUrl = 1

Idle(r) == pc[r] \in {"idle", "done"}

\* A response is sent (or an ApiError reaches the error handler) and the
\* request ends.
Respond(r, status, message) ==
    /\ pc' = [pc EXCEPT ![r] = "done"]
    /\ res' = [res EXCEPT ![r] = [NoRes EXCEPT !.status = status, !.message = message]]

Query(r, q) == [req[r] EXCEPT !.queries = Append(@, q)]

\* ------------------------------------------------------- getWatchHistory
\* The route hands the handler an authenticated viewer (req.user).
GetWatchHistoryStart(r) ==
    /\ Idle(r)
    /\ \E u \in UserIds :
         req' = [req EXCEPT ![r] = [NoReq EXCEPT !.kind = "getWatchHistory", !.user = u]]
    /\ pc' = [pc EXCEPT ![r] = "gwh_find"]
    /\ res' = [res EXCEPT ![r] = NoRes]
    /\ UNCHANGED <<users, videos, otps, now, issued, nextSerial>>
    /\ UNCHANGED others

\* const findUser = await User.findById(req.user._id)
GetWatchHistoryFindUser(r) ==
    /\ pc[r] = "gwh_find"
    /\ req' = [req EXCEPT ![r] = Query(r, "User.findById")]
    /\ IF req[r].user \in UserIds
         THEN pc' = [pc EXCEPT ![r] = "gwh_page"] /\ UNCHANGED res
         ELSE Respond(r, NotFound, "User does not exists")
    /\ UNCHANGED <<users, videos, otps, now, issued, nextSerial>>
    /\ UNCHANGED others

\* page and limit are parsed and found non-positive: 400, no aggregation.
GetWatchHistoryReject(r) ==
    /\ pc[r] = "gwh_page"
    /\ \E p \in PageInputs, l \in LimitInputs :
         /\ ParseIntOr(p, DefaultPage) < 1 \/ ParseIntOr(l, DefaultLimit) < 1
         /\ req' = [req EXCEPT ![r].page = p, ![r].limit = l]
    /\ Respond(r, BadRequest, "Page and limit must be positive integers")
    /\ UNCHANGED <<users, videos, otps, now, issued, nextSerial>>
    /\ UNCHANGED others

\* page and limit are parsed and positive: the aggregation runs in the store.
GetWatchHistoryAggregate(r) ==
    /\ pc[r] = "gwh_page"
    /\ \E p \in PageInputs, l \in LimitInputs :
         LET page == ParseIntOr(p, DefaultPage)
             limit == ParseIntOr(l, DefaultLimit)
         IN /\ ~(page < 1 \/ limit < 1)
            /\ req' = [req EXCEPT ![r] =
                        [Query(r, "User.aggregate") EXCEPT !.page = p, !.limit = l]]
            /\ res' = [res EXCEPT ![r] =
                        [NoRes EXCEPT !.status = Ok,
                                      !.message = "Watch history fetched successfully",
                                      !.watchHistory =
                                          WatchHistoryPipeline(req[r].user, page, limit)]]
    /\ pc' = [pc EXCEPT ![r] = "done"]
    /\ UNCHANGED <<users, videos, otps, now, issued, nextSerial>>
    /\ UNCHANGED others

\* ------------------------------------------------ pushVideoToWatchHistory
PushStart(r) ==
    /\ Idle(r)
    /\ \E u \in UserIds :
         req' = [req EXCEPT ![r] = [NoReq EXCEPT !.kind = "pushVideoToWatchHistory",
                                                 !.user = u]]
    /\ pc' = [pc EXCEPT ![r] = "push_find"]
    /\ res' = [res EXCEPT ![r] = NoRes]
    /\ UNCHANGED <<users, videos, otps, now, issued, nextSerial>>
    /\ UNCHANGED others

\* isValidObjectId(videoId) fails: 400 before any query.
PushInvalidId(r) ==
    /\ pc[r] = "push_find"
    /\ \E v \in VideoIdInputs :
         /\ ~IsValidObjectId(v)
         /\ req' = [req EXCEPT ![r].videoId = v]
    /\ Respond(r, BadRequest, "video id is not a valid object id")
    /\ UNCHANGED <<users, videos, otps, now, issued, nextSerial>>
    /\ UNCHANGED others

\* const isVideoAvl = await Video.findOne({_id: videoId, isPublished: true})
PushFindVideo(r) ==
    /\ pc[r] = "push_find"
    /\ \E v \in VideoIdInputs :
         /\ IsValidObjectId(v)
         /\ req' = [req EXCEPT ![r] = [Query(r, "Video.findOne") EXCEPT !.videoId = v]]
         /\ IF LookupPublished(v) # <<>>
              THEN pc' = [pc EXCEPT ![r] = "push_update"] /\ UNCHANGED res
              ELSE Respond(r, BadRequest, "video not found")
    /\ UNCHANGED <<users, videos, otps, now, issued, nextSerial>>
    /\ UNCHANGED others

\* Mutant: $addToSet instead of $push (an identifier already present is not
\* appended again).
PushUpdateAddToSet(r) ==
    /\ pc[r] = "push_update"
    /\ Len(users[req[r].user].watchHistory) < MaxHist
    /\ req' = [req EXCEPT ![r] = Query(r, "User.findByIdAndUpdate")]
    /\ LET old == users[req[r].user].watchHistory
           new == IF \E i \in 1..Len(old) : old[i] = req[r].videoId
                    THEN old ELSE Append(old, req[r].videoId)
       IN /\ users' = [users EXCEPT ![req[r].user].watchHistory = new]
          /\ pc' = [pc EXCEPT ![r] = "done"]
          /\ res' = [res EXCEPT ![r] =
                      [NoRes EXCEPT !.status = Ok,
                                    !.message = "Video added to watchHistory successfully",
                                    !.watchHistory = new]]
    /\ UNCHANGED <<videos, otps, now, issued, nextSerial>>
    /\ UNCHANGED others

\* User.findByIdAndUpdate(req.user._id, {$push: {watchHistory: isVideoAvl._id}})
PushUpdate(r) ==
    /\ pc[r] = "push_update"
    /\ Len(users[req[r].user].watchHistory) < MaxHist
    /\ req' = [req EXCEPT ![r] = Query(r, "User.findByIdAndUpdate")]
    /\ IF req[r].user \in UserIds
         THEN /\ users' = [users EXCEPT ![req[r].user].watchHistory =
                                            Append(@, req[r].videoId)]
              /\ pc' = [pc EXCEPT ![r] = "done"]
              /\ res' = [res EXCEPT ![r] =
                          [NoRes EXCEPT !.status = Ok,
                                        !.message = "Video added to watchHistory successfully",
                                        !.watchHistory =
                                            Append(users[req[r].user].watchHistory,
                                                   req[r].videoId)]]
         ELSE Respond(r, BadRequest, "User not found") /\ UNCHANGED users
    /\ UNCHANGED <<videos, otps, now, issued, nextSerial>>
    /\ UNCHANGED others

\* The owner of a video publishes or unpublishes it (video controller).
TogglePublishStatus(v) ==
    /\ videos' = [videos EXCEPT ![v] =
                    IF @ = "published" THEN "unpublished" ELSE "published"]
    /\ UNCHANGED <<users, otps, now, issued, nextSerial, pc, req, res>>
    /\ UNCHANGED others

NextHistory ==
    \/ \E r \in Reqs : GetWatchHistoryStart(r)
    \/ \E r \in Reqs : GetWatchHistoryFindUser(r)
    \/ \E r \in Reqs : GetWatchHistoryReject(r)
    \/ \E r \in Reqs : GetWatchHistoryAggregate(r)
    \/ \E r \in Reqs : PushStart(r)
    \/ \E r \in Reqs : PushInvalidId(r)
    \/ \E r \in Reqs : PushFindVideo(r)
    \/ \E r \in Reqs : PushUpdate(r)
    \/ \E v \in VideoIds : TogglePublishStatus(v)

SpecHistory == Init /\ [][NextHistory]_vars

\* -------------------------------------------------------------- OTP channel
\* Lifetime of an OTP record in whole clock instants: a record lives to the end
\* of the instant it was created in.
OtpTtl == 0

\* An OTP is requested for an address and a flow: the record for that address
\* is (re)written with a fresh expiry.
CreateOtp(e, c, ctx) ==
    /\ otps' = [otps EXCEPT ![e] = [code |-> c, context |-> ctx,
                                    expires |-> now + OtpTtl]]
    /\ UNCHANGED <<users, videos, now, issued, nextSerial, pc, req, res>>
    /\ UNCHANGED others

\* Time passes.
Tick ==
    /\ now < MaxNow
    /\ now' = now + 1
    /\ UNCHANGED <<users, videos, otps, issued, nextSerial, pc, req, res>>
    /\ UNCHANGED others

\* otpData.isOtpCorrect(otp)
IsOtpCorrect(otpData, otp) == otpData.code = otp

\* ------------------------------------------------------------- verifyOtp
\* req.url.split("/")
Split(url) == IF url = "/register" THEN <<"", "register">> ELSE <<url>>

\* otpData.expires < new Date()
Expired(otpData, t) == otpData.expires < t

\* Mutant: the route context is never compared.
ContextAlwaysMatches(url, otpData) == TRUE

\* req.url.split("/")[1] !== otpData.context, negated (JS indexes from 0).
ContextMatches(url, otpData) == Split(url)[2] = otpData.context

\* POST /register reaches the verifyOtp middleware.
RegisterStart(r) ==
    /\ Idle(r)
    /\ \E url \in Urls :
         req' = [req EXCEPT ![r] = [NoReq EXCEPT !.kind = "registerUser", !.url = url]]
    /\ pc' = [pc EXCEPT ![r] = "otp_find"]
    /\ res' = [res EXCEPT ![r] = NoRes]
    /\ UNCHANGED <<users, videos, otps, now, issued, nextSerial>>
    /\ UNCHANGED others

\* if (!email || !otp) throw new ApiError(400, ...)
VerifyOtpMissingField(r) ==
    /\ pc[r] = "otp_find"
    /\ \E e \in EmailInputs, o \in OtpInputs :
         /\ e = "" \/ o = ""
         /\ req' = [req EXCEPT ![r].email = e, ![r].otp = o]
    /\ Respond(r, BadRequest, "Email and otp is required")
    /\ UNCHANGED <<users, videos, otps, now, issued, nextSerial>>
    /\ UNCHANGED others

\* The request after  const otpData = await Otp.findOne({ email })
OtpFindOne(r, e, o) ==
    [Query(r, "Otp.findOne") EXCEPT !.email = e, !.otp = o, !.otpData = otps[e]]

\* Otp.findOne finds nothing: 404.
VerifyOtpNotFound(r) ==
    /\ pc[r] = "otp_find"
    /\ \E e \in Emails, o \in OtpInputs \ {""} :
         /\ otps[e] = NoOtp
         /\ req' = [req EXCEPT ![r] = OtpFindOne(r, e, o)]
    /\ Respond(r, NotFound, "Otp not found")
    /\ UNCHANGED <<users, videos, otps, now, issued, nextSerial>>
    /\ UNCHANGED others

\* The record found is past its expiry: 404.
VerifyOtpExpired(r) ==
    /\ pc[r] = "otp_find"
    /\ \E e \in Emails, o \in OtpInputs \ {""} :
         /\ otps[e] # NoOtp
         /\ Expired(otps[e], now)
         /\ req' = [req EXCEPT ![r] = OtpFindOne(r, e, o)]
    /\ Respond(r, NotFound, "Otp is expired")
    /\ UNCHANGED <<users, videos, otps, now, issued, nextSerial>>
    /\ UNCHANGED others

\* The record found belongs to another flow than the route: 404.
VerifyOtpWrongContext(r) ==
    /\ pc[r] = "otp_find"
    /\ \E e \in Emails, o \in OtpInputs \ {""} :
         /\ otps[e] # NoOtp
         /\ ~Expired(otps[e], now)
         /\ ~ContextMatches(req[r].url, otps[e])
         /\ req' = [req EXCEPT ![r] = OtpFindOne(r, e, o)]
    /\ Respond(r, NotFound, "Invalid otp")
    /\ UNCHANGED <<users, videos, otps, now, issued, nextSerial>>
    /\ UNCHANGED others

\* The record found is live and of this route: on to isOtpCorrect.
VerifyOtpFound(r) ==
    /\ pc[r] = "otp_find"
    /\ \E e \in Emails, o \in OtpInputs \ {""} :
         /\ otps[e] # NoOtp
         /\ ~Expired(otps[e], now)
         /\ ContextMatches(req[r].url, otps[e])
         /\ req' = [req EXCEPT ![r] = OtpFindOne(r, e, o)]
    /\ pc' = [pc EXCEPT ![r] = "otp_code"]
    /\ UNCHANGED <<users, videos, otps, now, issued, nextSerial, res>>
    /\ UNCHANGED others

\* if (!isOtpCorrect) throw new ApiError(404, "Invalid otp")
VerifyOtpWrongCode(r) ==
    /\ pc[r] = "otp_code"
    /\ ~IsOtpCorrect(req[r].otpData, req[r].otp)
    /\ Respond(r, NotFound, "Invalid otp")
    /\ UNCHANGED <<users, videos, otps, now, issued, nextSerial, req>>
    /\ UNCHANGED others

\* Mutant: the record is not deleted on success.
VerifyOtpKeepsRecord(r) ==
    /\ pc[r] = "otp_code"
    /\ IsOtpCorrect(req[r].otpData, req[r].otp)
    /\ req' = [req EXCEPT ![r].verifyOtp = TRUE]
    /\ pc' = [pc EXCEPT ![r] = "reg_enter"]
    /\ UNCHANGED <<users, videos, otps, now, issued, nextSerial, res>>
    /\ UNCHANGED others

\* Mutant: the result of isOtpCorrect is not looked at.
VerifyOtpDeleteUnchecked(r) ==
    /\ pc[r] = "otp_code"
    /\ otps' = [otps EXCEPT ![req[r].email] = NoOtp]
    /\ req' = [req EXCEPT ![r] = [Query(r, "Otp.deleteOne") EXCEPT !.verifyOtp = TRUE]]
    /\ pc' = [pc EXCEPT ![r] = "reg_enter"]
    /\ UNCHANGED <<users, videos, now, issued, nextSerial, res>>
    /\ UNCHANGED others

\* The code is right:  await Otp.deleteOne({email: otpData.email});
\* req.verifyOtp = true; next()
VerifyOtpDelete(r) ==
    /\ pc[r] = "otp_code"
    /\ IsOtpCorrect(req[r].otpData, req[r].otp)
    /\ otps' = [otps EXCEPT ![req[r].email] = NoOtp]
    /\ req' = [req EXCEPT ![r] = [Query(r, "Otp.deleteOne") EXCEPT !.verifyOtp = TRUE]]
    /\ pc' = [pc EXCEPT ![r] = "reg_enter"]
    /\ UNCHANGED <<users, videos, now, issued, nextSerial, res>>
    /\ UNCHANGED others

\* ----------------------------------------------------------- registerUser
\* username.toLowerCase()
ToLowerCase(s) == IF s = "Bob" THEN "bob" ELSE s

\* The unique indexes on username and email refuse the document.
DuplicateKey(doc) ==
    \E u \in UserIds : users[u].username = doc.username \/ users[u].email = doc.email

\* The field check and the check of req.verifyOtp.
RegisterUserEnter(r) ==
    /\ pc[r] = "reg_enter"
    /\ \E n \in UsernameInputs :
         /\ req' = [req EXCEPT ![r].username = n]
         /\ IF n = ""
              THEN Respond(r, BadRequest, "All fields are required")
              ELSE IF req[r].verifyOtp # TRUE
                     THEN Respond(r, BadRequest, "Invalid otp")
                     ELSE pc' = [pc EXCEPT ![r] = "reg_find"] /\ UNCHANGED res
    /\ UNCHANGED <<users, videos, otps, now, issued, nextSerial>>
    /\ UNCHANGED others

\* const existedUser = await User.findOne({$or: [{ username }, { email }]})
RegisterUserFindExisting(r) ==
    /\ pc[r] = "reg_find"
    /\ req' = [req EXCEPT ![r] = Query(r, "User.findOne")]
    /\ IF \E u \in UserIds : \/ users[u].username = req[r].username
                             \/ users[u].email = req[r].email
         THEN Respond(r, Conflict, "User with email or username already exists")
         ELSE pc' = [pc EXCEPT ![r] = "reg_create"] /\ UNCHANGED res
    /\ UNCHANGED <<users, videos, otps, now, issued, nextSerial>>
    /\ UNCHANGED others

\* const user = await User.create({...}); the created user is read back and
\* returned with 201.
RegisterUserCreate(r) ==
    /\ pc[r] = "reg_create"
    /\ LET doc == [username |-> ToLowerCase(req[r].username), email |-> req[r].email,
                   password |-> "pw", refreshToken |-> NoToken, watchHistory |-> <<>>,
                   avatar |-> NoUrl, coverImage |-> NoUrl]
       IN IF DuplicateKey(doc)
            THEN /\ req' = [req EXCEPT ![r] = Query(r, "User.create")]
                 /\ Respond(r, ServerError, "duplicate key")
                 /\ UNCHANGED users
            ELSE /\ users' = Append(users, doc)
                 /\ req' = [req EXCEPT ![r].queries = @ \o <<"User.create", "User.findById">>]
                 /\ Respond(r, Created, "User registered Successfully")
    /\ UNCHANGED <<videos, otps, now, issued, nextSerial>>
    /\ UNCHANGED others

NextOtp ==
    \/ \E e \in Emails, c \in Codes, ctx \in Contexts : CreateOtp(e, c, ctx)
    \/ Tick
    \/ \E r \in Reqs : RegisterStart(r)
    \/ \E r \in Reqs : VerifyOtpMissingField(r)
    \/ \E r \in Reqs : VerifyOtpNotFound(r)
    \/ \E r \in Reqs : VerifyOtpExpired(r)
    \/ \E r \in Reqs : VerifyOtpWrongContext(r)
    \/ \E r \in Reqs : VerifyOtpFound(r)
    \/ \E r \in Reqs : VerifyOtpWrongCode(r)
    \/ \E r \in Reqs : VerifyOtpDelete(r)
    \/ \E r \in Reqs : RegisterUserEnter(r)
    \/ \E r \in Reqs : RegisterUserFindExisting(r)
    \/ \E r \in Reqs : RegisterUserCreate(r)

SpecOtp == Init /\ [][NextOtp]_vars

\* ------------------------------------------------ session (refresh) tokens
\* A string that is no token signed with REFRESH_TOKEN_SECRET.
BadToken == [uid |-> 0, serial |-> -1]

\* jwt.verify(incomingRefreshToken, REFRESH_TOKEN_SECRET) does not throw.
JwtVerify(t) == t.serial >= 1

\* What a client may present: nothing, garbage, or a token it was sent.
TokenInputs == issued \cup {NoToken, BadToken}

\* user.generateRefreshToken(): a token for the user unlike any signed before.
GenerateRefreshToken(u) == [uid |-> u, serial |-> nextSerial]

\* user.isPasswordCorrect(password)
IsPasswordCorrect(u, password) == users[u].password = password

\* ---------------------------------------- generateAccessAndRefreshTokens
\* const user = await User.findById(userId); the two tokens are generated and
\* user.refreshToken is assigned.
GenerateTokensFind(r) ==
    /\ pc[r] = "gen_find"
    /\ nextSerial <= MaxTokens
    /\ req' = [req EXCEPT ![r] =
                 [Query(r, "User.findById") EXCEPT
                     !.refreshToken = GenerateRefreshToken(req[r].user)]]
    /\ nextSerial' = nextSerial + 1
    /\ pc' = [pc EXCEPT ![r] = "gen_save"]
    /\ UNCHANGED <<users, videos, otps, now, issued, res>>
    /\ UNCHANGED others

\* await user.save({ validateBeforeSave: false }); the caller then answers 200
\* with the tokens (loginUser after reading the user back).
GenerateTokensSave(r) ==
    /\ pc[r] = "gen_save"
    /\ users' = [users EXCEPT ![req[r].user].refreshToken = req[r].refreshToken]
    /\ req' = [req EXCEPT ![r].queries =
                 @ \o (IF req[r].kind = "loginUser"
                         THEN <<"user.save", "User.findById">> ELSE <<"user.save">>)]
    /\ issued' = issued \cup {req[r].refreshToken}
    /\ pc' = [pc EXCEPT ![r] = "done"]
    /\ res' = [res EXCEPT ![r] =
                 [NoRes EXCEPT !.status = Ok,
                               !.message = IF req[r].kind = "loginUser"
                                             THEN "user logged In Successfully"
                                             ELSE "Access token refreshed",
                               !.refreshToken = req[r].refreshToken]]
    /\ UNCHANGED <<videos, otps, now, nextSerial>>
    /\ UNCHANGED others

\* -------------------------------------------------------------- loginUser
LoginStart(r) ==
    /\ Idle(r)
    /\ req' = [req EXCEPT ![r] = [NoReq EXCEPT !.kind = "loginUser"]]
    /\ pc' = [pc EXCEPT ![r] = "login_find"]
    /\ res' = [res EXCEPT ![r] = NoRes]
    /\ UNCHANGED <<users, videos, otps, now, issued, nextSerial>>
    /\ UNCHANGED others

\* if (!(username || email)) throw new ApiError(400, ...)
LoginMissingCredentials(r) ==
    /\ pc[r] = "login_find"
    /\ \E p \in PasswordInputs : req' = [req EXCEPT ![r].password = p]
    /\ Respond(r, BadRequest, "username or email is required")
    /\ UNCHANGED <<users, videos, otps, now, issued, nextSerial>>
    /\ UNCHANGED others

\* The users matching {$or: [{ username }, { email }]}.
FindByUsernameOrEmail(n, e) ==
    {u \in UserIds : (n # "" /\ users[u].username = n) \/ (e # "" /\ users[u].email = e)}

\* const user = await User.findOne(...); isPasswordCorrect; 404 or on to the
\* token generation.
LoginFindUser(r) ==
    /\ pc[r] = "login_find"
    /\ \E n \in LoginUsernameInputs, e \in EmailInputs, p \in PasswordInputs :
         LET found == FindByUsernameOrEmail(n, e)
             u == IF found = {} THEN NoUser
                  ELSE CHOOSE x \in found : \A y \in found : x <= y
         IN /\ n # "" \/ e # ""
            /\ req' = [req EXCEPT ![r] =
                         [Query(r, "User.findOne") EXCEPT
                             !.username = n, !.email = e, !.password = p, !.user = u]]
            /\ IF u = NoUser \/ ~IsPasswordCorrect(u, p)
                 THEN Respond(r, NotFound, "Invalid user credentials")
                 ELSE pc' = [pc EXCEPT ![r] = "gen_find"] /\ UNCHANGED res
    /\ UNCHANGED <<users, videos, otps, now, issued, nextSerial>>
    /\ UNCHANGED others

\* ------------------------------------------------------------- logoutUser
\* The route hands the handler an authenticated user (verifyJWT).
LogoutStart(r) ==
    /\ Idle(r)
    /\ \E u \in UserIds :
         req' = [req EXCEPT ![r] = [NoReq EXCEPT !.kind = "logoutUser", !.user = u]]
    /\ pc' = [pc EXCEPT ![r] = "logout"]
    /\ res' = [res EXCEPT ![r] = NoRes]
    /\ UNCHANGED <<users, videos, otps, now, issued, nextSerial>>
    /\ UNCHANGED others

\* Mutant: the refresh token is left in place.
LogoutUserKeepsToken(r) ==
    /\ pc[r] = "logout"
    /\ req' = [req EXCEPT ![r] = Query(r, "User.findByIdAndUpdate")]
    /\ Respond(r, Ok, "User logged Out")
    /\ UNCHANGED <<users, videos, otps, now, issued, nextSerial>>
    /\ UNCHANGED others

\* await User.findByIdAndUpdate(req.user._id, {$unset: {refreshToken: 1}})
LogoutUser(r) ==
    /\ pc[r] = "logout"
    /\ users' = [users EXCEPT ![req[r].user].refreshToken = NoToken]
    /\ req' = [req EXCEPT ![r] = Query(r, "User.findByIdAndUpdate")]
    /\ Respond(r, Ok, "User logged Out")
    /\ UNCHANGED <<videos, otps, now, issued, nextSerial>>
    /\ UNCHANGED others

\* ----------------------------------------------------- refreshAccessToken
\* Mutant: the presented token is not compared with the stored one.
RefreshTokenAcceptedUncompared(t) ==
    /\ t # NoToken
    /\ JwtVerify(t)
    /\ t.uid \in UserIds

\* The presented token passes: it is there, jwt.verify accepts it, its user
\* exists and it is that user's stored refresh token.
RefreshTokenAccepted(t) ==
    /\ t # NoToken
    /\ JwtVerify(t)
    /\ t.uid \in UserIds
    /\ t = users[t.uid].refreshToken

RefreshStart(r) ==
    /\ Idle(r)
    /\ req' = [req EXCEPT ![r] = [NoReq EXCEPT !.kind = "refreshAccessToken"]]
    /\ pc' = [pc EXCEPT ![r] = "rf_find"]
    /\ res' = [res EXCEPT ![r] = NoRes]
    /\ UNCHANGED <<users, videos, otps, now, issued, nextSerial>>
    /\ UNCHANGED others

\* Any throw inside the try is rethrown as 401 with its message.
RefreshReject(r) ==
    /\ pc[r] = "rf_find"
    /\ \E t \in TokenInputs :
         /\ ~RefreshTokenAccepted(t)
         /\ req' = [req EXCEPT ![r] =
                      [req[r] EXCEPT
                          !.incomingRefreshToken = t,
                          !.queries = IF t # NoToken /\ JwtVerify(t)
                                        THEN <<"User.findById">> ELSE <<>>]]
         /\ Respond(r, Unauthorized,
                    IF t = NoToken THEN "Unauthorized request"
                    ELSE IF ~JwtVerify(t) THEN "jwt malformed"
                    ELSE IF t.uid \notin UserIds THEN "Invalid refresh token"
                    ELSE "Refresh token is expired or used")
    /\ UNCHANGED <<users, videos, otps, now, issued, nextSerial>>
    /\ UNCHANGED others

\* The presented token is the stored one: on to the token generation.
RefreshAccept(r) ==
    /\ pc[r] = "rf_find"
    /\ \E t \in TokenInputs :
         /\ RefreshTokenAccepted(t)
         /\ req' = [req EXCEPT ![r] =
                      [Query(r, "User.findById") EXCEPT
                          !.incomingRefreshToken = t, !.user = t.uid]]
    /\ pc' = [pc EXCEPT ![r] = "gen_find"]
    /\ UNCHANGED <<users, videos, otps, now, issued, nextSerial, res>>
    /\ UNCHANGED others

NextAuth ==
    \/ \E r \in Reqs : LoginStart(r)
    \/ \E r \in Reqs : LoginMissingCredentials(r)
    \/ \E r \in Reqs : LoginFindUser(r)
    \/ \E r \in Reqs : GenerateTokensFind(r)
    \/ \E r \in Reqs : GenerateTokensSave(r)
    \/ \E r \in Reqs : LogoutStart(r)
    \/ \E r \in Reqs : LogoutUser(r)
    \/ \E r \in Reqs : RefreshStart(r)
    \/ \E r \in Reqs : RefreshReject(r)
    \/ \E r \in Reqs : RefreshAccept(r)

\* The session handlers start from a store in which a second user has
\* registered.
InitAuth ==
    /\ users = << [username |-> "bob", email |-> "a@x.io", password |-> "pw",
                   refreshToken |-> NoToken, watchHistory |-> <<>>,
                   avatar |-> NoUrl, coverImage |-> NoUrl],
                  [username |-> "amy", email |-> "b@x.io", password |-> "pw",
                   refreshToken |-> NoToken, watchHistory |-> <<>>,
                   avatar |-> NoUrl, coverImage |-> NoUrl] >>
    /\ videos = [v \in VideoIds |-> "published"]
    /\ otps = [e \in Emails |-> NoOtp]
    /\ now = 0
    /\ issued = {}
    /\ nextSerial = 1
    /\ pc = [r \in Reqs |-> "idle"]
    /\ req = [r \in Reqs |-> NoReq]
    /\ res = [r \in Reqs |-> NoRes]
    /\ subscriptions = {}
    /\ cloud = {}
    /\ tmpFiles = {}
    /\ nextUrl = 1

SpecAuth == InitAuth /\ [][NextAuth]_vars

\* No request is in flight.
Quiet == \A q \in Reqs : Idle(q)

\* The same handlers with the requests arriving one after the other: a request
\* starts only when no other is in flight.
NextAuthSeq ==
    \/ \E r \in Reqs : Quiet /\ LoginStart(r)
    \/ \E r \in Reqs : LoginMissingCredentials(r)
    \/ \E r \in Reqs : LoginFindUser(r)
    \/ \E r \in Reqs : GenerateTokensFind(r)
    \/ \E r \in Reqs : GenerateTokensSave(r)
    \/ \E r \in Reqs : Quiet /\ LogoutStart(r)
    \/ \E r \in Reqs : LogoutUser(r)
    \/ \E r \in Reqs : Quiet /\ RefreshStart(r)
    \/ \E r \in Reqs : RefreshReject(r)
    \/ \E r \in Reqs : RefreshAccept(r)

SpecAuthSeq == InitAuth /\ [][NextAuthSeq]_vars

\* -------------------------------------------------- subscription edges
\* A subscription document: subscriber follows channel.
Edge(v, c) == [subscriber |-> v, channel |-> c]

\* POST /c/:channelId by the authenticated user v: the edge (v, c) is removed
\* when it exists and created when it does not, so the relation holds at most
\* one edge per ordered pair.
ToggleSubscription(v, c) ==
    /\ v # c
    /\ subscriptions' = IF Edge(v, c) \in subscriptions
                          THEN subscriptions \ {Edge(v, c)}
                          ELSE subscriptions \cup {Edge(v, c)}
    /\ UNCHANGED <<users, videos, otps, now, issued, nextSerial, pc, req, res>>
    /\ UNCHANGED <<cloud, tmpFiles, nextUrl>>

\* -------------------------------------------------- getUserChannelProfile
\* username?.trim()
Trim(s) == IF s = " " THEN "" ELSE s

\* $match {username: username?.toLowerCase()}: the matched user, or NoUser.
MatchUsername(username) ==
    IF \E u \in UserIds : users[u].username = ToLowerCase(username)
      THEN CHOOSE u \in UserIds : users[u].username = ToLowerCase(username)
      ELSE NoUser

\* Mutant: the first $lookup joins on the subscriber field.
SubscribersBySubscriber(ch) == {e \in subscriptions : e.subscriber = ch}

\* $lookup from subscriptions, localField _id, foreignField channel.
Subscribers(ch) == {e \in subscriptions : e.channel = ch}

\* $lookup from subscriptions, localField _id, foreignField subscriber.
SubscribedTo(ch) == {e \in subscriptions : e.subscriber = ch}

\* Mutant: $in looks for the viewer in "$subscribedTo.subscriber".
AddFieldsInSubscribedTo(subscribers, subscribedTo, viewer) ==
    [subscribersCount |-> Cardinality(subscribers),
     channelsSubscibedToCount |-> Cardinality(subscribedTo),
     isSubscribed |-> viewer \in {e.subscriber : e \in subscribedTo}]

\* $addFields: both sizes, and $cond {$in: [req.user?._id, "$subscribers.subscriber"]}.
\* An absent viewer is no subscriber's id.
AddFields(subscribers, subscribedTo, viewer) ==
    [subscribersCount |-> Cardinality(subscribers),
     channelsSubscibedToCount |-> Cardinality(subscribedTo),
     isSubscribed |-> viewer \in {e.subscriber : e \in subscribers}]

\* What the whole pipeline yields for channel ch and viewer when the
\* subscriptions do not change while it runs.
ChannelProfile(ch, viewer) == AddFields(Subscribers(ch), SubscribedTo(ch), viewer)

\* The handler reads the username and rejects a blank one; otherwise it sends
\* the aggregation.  The viewer identity is optional (req.user?._id).
GetUserChannelProfileStart(r) ==
    /\ Idle(r)
    /\ \E u \in UserIds \cup {NoUser}, n \in ProfileUsernameInputs :
         /\ req' = [req EXCEPT ![r] = [NoReq EXCEPT !.kind = "getUserChannelProfile",
                                                    !.user = u, !.username = n]]
         /\ IF Trim(n) = ""
              THEN Respond(r, BadRequest, "username is missing")
              ELSE /\ pc' = [pc EXCEPT ![r] = "gp_match"]
                   /\ res' = [res EXCEPT ![r] = NoRes]
    /\ UNCHANGED <<users, videos, otps, now, issued, nextSerial>>
    /\ UNCHANGED others

\* The pipeline finds no user with that name: channel?.length is 0.
ProfileNoChannel(r) ==
    /\ pc[r] = "gp_match"
    /\ MatchUsername(req[r].username) = NoUser
    /\ req' = [req EXCEPT ![r] = Query(r, "User.aggregate")]
    /\ Respond(r, NotFound, "channel does not exists")
    /\ UNCHANGED <<users, videos, otps, now, issued, nextSerial>>
    /\ UNCHANGED others

\* $match and the first $lookup: the channel's subscriber edges are read.
ProfileLookupSubscribers(r) ==
    /\ pc[r] = "gp_match"
    /\ MatchUsername(req[r].username) # NoUser
    /\ LET ch == MatchUsername(req[r].username)
       IN req' = [req EXCEPT ![r] = [Query(r, "User.aggregate") EXCEPT
                                        !.channel = ch, !.subscribers = Subscribers(ch)]]
    /\ pc' = [pc EXCEPT ![r] = "gp_lookup2"]
    /\ UNCHANGED <<users, videos, otps, now, issued, nextSerial, res>>
    /\ UNCHANGED others

\* The second $lookup, $addFields and $project; the handler answers 200 with
\* channel[0].  A subscription may have changed since the first $lookup: the
\* pipeline is one call, and its two joins are two reads of the collection.
ProfileAddFields(r) ==
    /\ pc[r] = "gp_lookup2"
    /\ LET fields == AddFields(req[r].subscribers, SubscribedTo(req[r].channel),
                               req[r].user)
       IN /\ pc' = [pc EXCEPT ![r] = "done"]
          /\ res' = [res EXCEPT ![r] =
                       [NoRes EXCEPT !.status = Ok,
                                     !.message = "User channel fetched successfully",
                                     !.subscribersCount = fields.subscribersCount,
                                     !.channelsSubscibedToCount =
                                         fields.channelsSubscibedToCount,
                                     !.isSubscribed = fields.isSubscribed]]
    /\ UNCHANGED <<users, videos, otps, now, issued, nextSerial, req>>
    /\ UNCHANGED others

NextProfile ==
    \/ \E v \in UserIds, c \in ChannelIdInputs : ToggleSubscription(v, c)
    \/ \E r \in Reqs :
         \/ GetUserChannelProfileStart(r)
         \/ ProfileNoChannel(r)
         \/ ProfileLookupSubscribers(r)
         \/ ProfileAddFields(r)

\* Three users: a channel and two possible subscribers.
InitProfile ==
    /\ users = << [username |-> "bob", email |-> "a@x.io", password |-> "pw",
                   refreshToken |-> NoToken, watchHistory |-> <<>>,
                   avatar |-> NoUrl, coverImage |-> NoUrl],
                  [username |-> "amy", email |-> "b@x.io", password |-> "pw",
                   refreshToken |-> NoToken, watchHistory |-> <<>>,
                   avatar |-> NoUrl, coverImage |-> NoUrl],
                  [username |-> "cat", email |-> "c@x.io", password |-> "pw",
                   refreshToken |-> NoToken, watchHistory |-> <<>>,
                   avatar |-> NoUrl, coverImage |-> NoUrl] >>
    /\ videos = [v \in VideoIds |-> "published"]
    /\ otps = [e \in Emails |-> NoOtp]
    /\ now = 0
    /\ issued = {}
    /\ nextSerial = 1
    /\ pc = [r \in Reqs |-> "idle"]
    /\ req = [r \in Reqs |-> NoReq]
    /\ res = [r \in Reqs |-> NoRes]
    /\ subscriptions = {}
    /\ cloud = {}
    /\ tmpFiles = {}
    /\ nextUrl = 1

SpecProfile == InitProfile /\ [][NextProfile]_vars

\* ------------------------------------------------------- media storage
\* mimetype.includes("image") and mimetype.includes("gif")
IncludesImage(m) == m \in {"image/png", "image/gif"}
IncludesGif(m) == m = "image/gif"

\* The temporary local path of the file of request r (req.file.path).
LocalPath(r) == r

\* What cloudinary.upload(localPath, "videotube/users") can come back with: a
\* document with a fresh secure_url, a document without one, or an exception
\* (fail-fast).  The local path is left as it is.
UploadOutcomes ==
    (IF nextUrl <= MaxUrls THEN {[kind |-> "ok", secure_url |-> nextUrl]} ELSE {})
    \cup {[kind |-> "ok", secure_url |-> NoUrl], [kind |-> "error", secure_url |-> NoUrl]}

\* cloudinary.delete(url): the image is gone from the storage.
CloudinaryDelete(url) == cloud \ {url}

\* Mutant: the handler goes on whatever the upload returned.
AnySecureUrl(result) == TRUE

\* !avatar.secure_url / !coverImage.secure_url
HasSecureUrl(result) == result.secure_url # NoUrl

\* The upload middleware of the route has stored the file of the request (if
\* it carries one) under a temporary local path, and the route has
\* authenticated the user.
UploadStart(r) ==
    /\ Idle(r)
    /\ \E u \in UserIds, k \in {"updateUserAvatar", "updateUserCoverImage"},
          f \in Mimetypes \cup {NoFile} :
         /\ req' = [req EXCEPT ![r] = [NoReq EXCEPT !.kind = k, !.user = u, !.file = f]]
         /\ tmpFiles' = IF f = NoFile THEN tmpFiles ELSE tmpFiles \cup {LocalPath(r)}
    /\ pc' = [pc EXCEPT ![r] = "up_enter"]
    /\ res' = [res EXCEPT ![r] = NoRes]
    /\ UNCHANGED <<users, videos, otps, now, issued, nextSerial>>
    /\ UNCHANGED <<subscriptions, cloud, nextUrl>>

\* ------------------------------------------------------ updateUserAvatar
UpdateUserAvatarMissingFile(r) ==
    /\ pc[r] = "up_enter" /\ req[r].kind = "updateUserAvatar"
    /\ req[r].file = NoFile
    /\ Respond(r, BadRequest, "Avatar file is missing")
    /\ UNCHANGED <<users, videos, otps, now, issued, nextSerial, req>>
    /\ UNCHANGED others

\* Mutant: the rejected file is left where the middleware put it.
UpdateUserAvatarRejectKeepsFile(r) ==
    /\ pc[r] = "up_enter" /\ req[r].kind = "updateUserAvatar"
    /\ req[r].file # NoFile /\ ~ IncludesImage(req[r].file)
    /\ Respond(r, BadRequest, "Only images are allowed to upload")
    /\ UNCHANGED <<users, videos, otps, now, issued, nextSerial, req>>
    /\ UNCHANGED others

\* Not an image: fs.unlinkSync(req.file.path), then 400.
UpdateUserAvatarRejectFile(r) ==
    /\ pc[r] = "up_enter" /\ req[r].kind = "updateUserAvatar"
    /\ req[r].file # NoFile /\ ~ IncludesImage(req[r].file)
    /\ tmpFiles' = tmpFiles \ {LocalPath(r)}
    /\ Respond(r, BadRequest, "Only images are allowed to upload")
    /\ UNCHANGED <<users, videos, otps, now, issued, nextSerial, req>>
    /\ UNCHANGED <<subscriptions, cloud, nextUrl>>

\* An image: cloudinary.upload is called.
UpdateUserAvatarAccept(r) ==
    /\ pc[r] = "up_enter" /\ req[r].kind = "updateUserAvatar"
    /\ req[r].file # NoFile /\ IncludesImage(req[r].file)
    /\ req' = [req EXCEPT ![r] = Query(r, "cloudinary.upload")]
    /\ pc' = [pc EXCEPT ![r] = "av_upload"]
    /\ UNCHANGED <<users, videos, otps, now, issued, nextSerial, res>>
    /\ UNCHANGED others

\* The upload returns or throws; without a secure_url the handler throws 500,
\* with one it calls User.findById.
UpdateUserAvatarUploaded(r) ==
    /\ pc[r] = "av_upload"
    /\ \E result \in UploadOutcomes :
         IF result.kind = "error"
           THEN /\ Respond(r, ServerError, "upload failed")
                /\ UNCHANGED <<req, cloud, nextUrl>>
           ELSE /\ cloud' = cloud \cup ({result.secure_url} \ {NoUrl})
                /\ nextUrl' = IF result.secure_url = NoUrl THEN nextUrl ELSE nextUrl + 1
                /\ IF HasSecureUrl(result)
                     THEN /\ req' = [req EXCEPT ![r].secure_url = result.secure_url]
                          /\ pc' = [pc EXCEPT ![r] = "av_find"]
                          /\ UNCHANGED res
                     ELSE /\ Respond(r, ServerError, "Error while uploading avatar")
                          /\ UNCHANGED req
    /\ UNCHANGED <<users, videos, otps, now, issued, nextSerial>>
    /\ UNCHANGED <<subscriptions, tmpFiles>>

\* const oldUser = await User.findById(req.user?.id); cloudinary.delete is
\* called with oldUser.avatar.
UpdateUserAvatarFindOldUser(r) ==
    /\ pc[r] = "av_find"
    /\ req' = [req EXCEPT ![r] = [Query(r, "User.findById") EXCEPT
                                     !.oldImage = users[req[r].user].avatar]]
    /\ pc' = [pc EXCEPT ![r] = "av_delete"]
    /\ UNCHANGED <<users, videos, otps, now, issued, nextSerial, res>>
    /\ UNCHANGED others

\* await cloudinary.delete(oldUser.avatar) returns.  The arguments of
\* User.findByIdAndUpdate are evaluated next, and the options object
\* { new: ture } names an identifier that is bound nowhere: a ReferenceError
\* is thrown before the update is sent, and the error handler answers.
UpdateUserAvatarDeleteOld(r) ==
    /\ pc[r] = "av_delete"
    /\ cloud' = CloudinaryDelete(req[r].oldImage)
    /\ req' = [req EXCEPT ![r] = Query(r, "cloudinary.delete")]
    /\ Respond(r, ServerError, "ture is not defined")
    /\ UNCHANGED <<users, videos, otps, now, issued, nextSerial>>
    /\ UNCHANGED <<subscriptions, tmpFiles, nextUrl>>

\* --------------------------------------------------- updateUserCoverImage
UpdateUserCoverImageMissingFile(r) ==
    /\ pc[r] = "up_enter" /\ req[r].kind = "updateUserCoverImage"
    /\ req[r].file = NoFile
    /\ Respond(r, BadRequest, "Cover file is missing")
    /\ UNCHANGED <<users, videos, otps, now, issued, nextSerial, req>>
    /\ UNCHANGED others

\* A gif or not an image: fs.unlinkSync(req.file.path), then 400.
UpdateUserCoverImageRejectFile(r) ==
    /\ pc[r] = "up_enter" /\ req[r].kind = "updateUserCoverImage"
    /\ req[r].file # NoFile
    /\ IncludesGif(req[r].file) \/ ~ IncludesImage(req[r].file)
    /\ tmpFiles' = tmpFiles \ {LocalPath(r)}
    /\ Respond(r, BadRequest, "Only images are allowed to upload")
    /\ UNCHANGED <<users, videos, otps, now, issued, nextSerial, req>>
    /\ UNCHANGED <<subscriptions, cloud, nextUrl>>

UpdateUserCoverImageAccept(r) ==
    /\ pc[r] = "up_enter" /\ req[r].kind = "updateUserCoverImage"
    /\ req[r].file # NoFile
    /\ ~ (IncludesGif(req[r].file) \/ ~ IncludesImage(req[r].file))
    /\ req' = [req EXCEPT ![r] = Query(r, "cloudinary.upload")]
    /\ pc' = [pc EXCEPT ![r] = "cv_upload"]
    /\ UNCHANGED <<users, videos, otps, now, issued, nextSerial, res>>
    /\ UNCHANGED others

UpdateUserCoverImageUploaded(r) ==
    /\ pc[r] = "cv_upload"
    /\ \E result \in UploadOutcomes :
         IF result.kind = "error"
           THEN /\ Respond(r, ServerError, "upload failed")
                /\ UNCHANGED <<req, cloud, nextUrl>>
           ELSE /\ cloud' = cloud \cup ({result.secure_url} \ {NoUrl})
                /\ nextUrl' = IF result.secure_url = NoUrl THEN nextUrl ELSE nextUrl + 1
                /\ IF HasSecureUrl(result)
                     THEN /\ req' = [req EXCEPT ![r].secure_url = result.secure_url]
                          /\ pc' = [pc EXCEPT ![r] = "cv_find"]
                          /\ UNCHANGED res
                     ELSE /\ Respond(r, ServerError, "Error while uploading cover image")
                          /\ UNCHANGED req
    /\ UNCHANGED <<users, videos, otps, now, issued, nextSerial>>
    /\ UNCHANGED <<subscriptions, tmpFiles>>

\* const oldUser = await User.findById(req.user?.id); with a cover image set
\* cloudinary.delete is called, without one User.findByIdAndUpdate is.
UpdateUserCoverImageFindOldUser(r) ==
    /\ pc[r] = "cv_find"
    /\ req' = [req EXCEPT ![r] = [Query(r, "User.findById") EXCEPT
                                     !.oldImage = users[req[r].user].coverImage]]
    /\ pc' = [pc EXCEPT ![r] = IF users[req[r].user].coverImage # NoUrl
                                 THEN "cv_delete" ELSE "cv_update"]
    /\ UNCHANGED <<users, videos, otps, now, issued, nextSerial, res>>
    /\ UNCHANGED others

\* await cloudinary.delete(oldUser.coverImage)
UpdateUserCoverImageDeleteOld(r) ==
    /\ pc[r] = "cv_delete"
    /\ cloud' = CloudinaryDelete(req[r].oldImage)
    /\ req' = [req EXCEPT ![r] = Query(r, "cloudinary.delete")]
    /\ pc' = [pc EXCEPT ![r] = "cv_update"]
    /\ UNCHANGED <<users, videos, otps, now, issued, nextSerial, res>>
    /\ UNCHANGED <<subscriptions, tmpFiles, nextUrl>>

\* User.findByIdAndUpdate(..., {$set: {coverImage}}, { new: true }): the
\* updated document is returned and sent with 200.
UpdateUserCoverImageUpdate(r) ==
    /\ pc[r] = "cv_update"
    /\ users' = [users EXCEPT ![req[r].user].coverImage = req[r].secure_url]
    /\ req' = [req EXCEPT ![r] = Query(r, "User.findByIdAndUpdate")]
    /\ pc' = [pc EXCEPT ![r] = "done"]
    /\ res' = [res EXCEPT ![r] =
                 [NoRes EXCEPT !.status = Ok,
                               !.message = "coverImage updated successfully",
                               !.avatar = users[req[r].user].avatar,
                               !.coverImage = req[r].secure_url]]
    /\ UNCHANGED <<videos, otps, now, issued, nextSerial>>
    /\ UNCHANGED others

NextMedia ==
    \E r \in Reqs :
        \/ UploadStart(r)
        \/ UpdateUserAvatarMissingFile(r)
        \/ UpdateUserAvatarRejectFile(r)
        \/ UpdateUserAvatarAccept(r)
        \/ UpdateUserAvatarUploaded(r)
        \/ UpdateUserAvatarFindOldUser(r)
        \/ UpdateUserAvatarDeleteOld(r)
        \/ UpdateUserCoverImageMissingFile(r)
        \/ UpdateUserCoverImageRejectFile(r)
        \/ UpdateUserCoverImageAccept(r)
        \/ UpdateUserCoverImageUploaded(r)
        \/ UpdateUserCoverImageFindOldUser(r)
        \/ UpdateUserCoverImageDeleteOld(r)
        \/ UpdateUserCoverImageUpdate(r)

\* One user whose avatar is image 1 of the media storage and who has no cover
\* image yet.
InitMedia ==
    /\ users = << [username |-> "bob", email |-> "a@x.io", password |-> "pw",
                   refreshToken |-> NoToken, watchHistory |-> <<>>,
                   avatar |-> 1, coverImage |-> NoUrl] >>
    /\ videos = [v \in VideoIds |-> "published"]
    /\ otps = [e \in Emails |-> NoOtp]
    /\ now = 0
    /\ issued = {}
    /\ nextSerial = 1
    /\ pc = [r \in Reqs |-> "idle"]
    /\ req = [r \in Reqs |-> NoReq]
    /\ res = [r \in Reqs |-> NoRes]
    /\ subscriptions = {}
    /\ cloud = {1}
    /\ tmpFiles = {}
    /\ nextUrl = 2

SpecMedia == InitMedia /\ [][NextMedia]_vars

\* ================================================================ claims
\* What the specification means by its error names, as HTTP status codes.
ValidationError == BadRequest
InvalidInputError == BadRequest
NotFoundError == NotFound
AuthError == Unauthorized

Finished(r, kind) == pc[r] = "done" /\ req[r].kind = kind

\* The number a client wrote in a query parameter is below 1.
BelowOne(s) == ~IsNaN(s) /\ ParseInt(s) < 1

\* C1: every getWatchHistory request whose page or limit is below 1 is
\* rejected with status 400 before any query has been issued to the store.
C1_RejectsBeforeAnyQuery ==
    \A r \in Reqs :
        (Finished(r, "getWatchHistory")
            /\ (BelowOne(req[r].page) \/ BelowOne(req[r].limit)))
        => (res[r].status = ValidationError /\ req[r].queries = <<>>)

\* ---- C2
IsPublished(v) == v \in VideoIds /\ videos[v] = "published"

\* The history of viewer u, newest first, restricted to published videos.
PublishedNewestFirst(u) ==
    LET h == users[u].watchHistory
        newestFirst == [i \in 1..Len(h) |-> h[Len(h) + 1 - i]]
    IN SelectSeq(newestFirst, IsPublished)

\* The slice of s that starts at offset skip and has at most limit entries.
Slice(s, skip, limit) ==
    LET n == IF Len(s) - skip < 0 THEN 0 ELSE Min(limit, Len(s) - skip)
    IN [i \in 1..n |-> s[skip + i]]

\* C2: for page >= 1 and limit >= 1 getWatchHistory answers 200 with at most
\* limit entries: the slice at offset (page-1)*limit of the stored history
\* reversed and restricted to the videos published when the query runs; an
\* empty or fully unpublished history gives the empty sequence.
C2_PageOfReversedPublishedHistory ==
    [][\A r \in Reqs :
          (pc[r] = "gwh_page" /\ pc'[r] = "done"
              /\ ~IsNaN(req'[r].page) /\ ParseInt(req'[r].page) >= 1
              /\ ~IsNaN(req'[r].limit) /\ ParseInt(req'[r].limit) >= 1)
          => LET page == ParseInt(req'[r].page)
                 limit == ParseInt(req'[r].limit)
             IN /\ res'[r].status = Ok
                /\ Len(res'[r].watchHistory) <= limit
                /\ res'[r].watchHistory =
                       Slice(PublishedNewestFirst(req[r].user), (page - 1) * limit, limit)
                /\ (PublishedNewestFirst(req[r].user) = <<>>
                       => res'[r].watchHistory = <<>>)]_vars

\* A second page of one entry was served from a history of three that holds an
\* unpublished video.
C2_Witness ==
    \E r \in Reqs :
        /\ Finished(r, "getWatchHistory")
        /\ req[r].page = "2" /\ req[r].limit = "1"
        /\ res[r].status = Ok /\ Len(res[r].watchHistory) = 1
        /\ Len(users[req[r].user].watchHistory) = 3
        /\ \E i \in 1..3 : ~IsPublished(users[req[r].user].watchHistory[i])

\* ---- C3
PushSucceeds(r) == pc[r] = "push_update" /\ pc'[r] = "done" /\ res'[r].status = Ok

\* C3: the stored watch history only ever changes by a successful push, which
\* appends exactly the pushed identifier at the end and keeps every earlier
\* entry in place, duplicates included.
C3_AppendOnly ==
    [][/\ \A r \in Reqs :
            PushSucceeds(r)
            => users'[req[r].user].watchHistory =
                   Append(users[req[r].user].watchHistory, req[r].videoId)
       /\ \A u \in UserIds :
            \/ users'[u].watchHistory = users[u].watchHistory
            \/ \E r \in Reqs :
                  /\ PushSucceeds(r) /\ req[r].user = u
                  /\ users'[u].watchHistory =
                         Append(users[u].watchHistory, req[r].videoId)]_vars

\* Two requests that were in flight together both pushed v1, the history holds
\* it twice and it is served twice.
C3_Witness ==
    /\ users[1].watchHistory = <<"v1", "v1">>
    /\ \E r \in Reqs :
          /\ Finished(r, "getWatchHistory")
          /\ res[r].watchHistory = <<"v1", "v1">>

\* C4: a push of a well-formed identifier of no published video ends with
\* NotFoundError, a push of a malformed identifier with InvalidInputError, and
\* neither has updated the viewer's record.
C4_PushErrorKinds ==
    \A r \in Reqs :
        Finished(r, "pushVideoToWatchHistory") /\ res[r].status # Ok
        => /\ "User.findByIdAndUpdate" \notin {req[r].queries[i] : i \in 1..Len(req[r].queries)}
           /\ IF IsValidObjectId(req[r].videoId)
                THEN res[r].status = NotFoundError
                ELSE res[r].status = InvalidInputError

\* ---- C5
QueriesOf(r) == {req[r].queries[i] : i \in 1..Len(req[r].queries)}

\* C5: the step on which verifyOtp succeeds deletes the OTP record of that
\* email; while no record exists for an email every verifyOtp request that
\* looks it up with a code ends with NotFoundError and is not marked
\* OTP-verified; and no request step brings a record back.
C5_OtpSingleUse ==
    [][/\ \A r \in Reqs :
            (pc[r] = "otp_code" /\ req'[r].verifyOtp)
            => otps'[req[r].email] = NoOtp
       /\ \A r \in Reqs :
            (pc[r] = "otp_find" /\ pc'[r] # "otp_find"
                /\ req'[r].email \in Emails /\ req'[r].otp # ""
                /\ otps[req'[r].email] = NoOtp)
            => (pc'[r] = "done" /\ res'[r].status = NotFoundError
                   /\ ~req'[r].verifyOtp)
       /\ \A e \in Emails :
            (otps[e] = NoOtp /\ otps'[e] # NoOtp) => pc' = pc]_vars

\* One request registered a user with an email and code; another request with
\* the same email and code found no record and got 404.
C5_Witness ==
    \E r1, r2 \in Reqs :
        /\ r1 # r2
        /\ Finished(r1, "registerUser") /\ res[r1].status = Created
        /\ Finished(r2, "registerUser") /\ res[r2].status = NotFound
        /\ req[r2].email = req[r1].email /\ req[r2].otp = req[r1].otp
        /\ req[r2].otpData = NoOtp /\ ~req[r2].verifyOtp
        /\ otps[req[r1].email] = NoOtp

\* ---- C6
RouteContext(r) == Split(req[r].url)[2]

\* C6: a request whose route context differs from the context of the OTP
\* record it loaded has failed: it ended with an error, the only store
\* operation it issued is the lookup (no delete, nothing downstream), and it
\* is not marked OTP-verified.
C6_ContextMismatchFails ==
    \A r \in Reqs :
        (req[r].kind = "registerUser" /\ req[r].otpData # NoOtp
            /\ RouteContext(r) # req[r].otpData.context)
        => /\ pc[r] = "done" /\ res[r].status >= 400
           /\ ~req[r].verifyOtp
           /\ req[r].queries = <<"Otp.findOne">>

\* The mismatching request carried the right code for a live record, which is
\* still stored.
C6_Witness ==
    \E r \in Reqs :
        /\ Finished(r, "registerUser")
        /\ req[r].otpData # NoOtp
        /\ RouteContext(r) # req[r].otpData.context
        /\ req[r].otp = req[r].otpData.code
        /\ req[r].otpData.expires >= now
        /\ otps[req[r].email] = req[r].otpData

\* ---- C7
\* C7: a verifyOtp failure ends with NotFoundError when no record exists, and
\* with InvalidInputError when a live record's context differs from the
\* route's or its code from the submitted one.
C7_ErrorByCause ==
    \A r \in Reqs :
        (Finished(r, "registerUser") /\ ~req[r].verifyOtp
            /\ req[r].queries = <<"Otp.findOne">>)
        => IF req[r].otpData = NoOtp
             THEN res[r].status = NotFoundError
             ELSE IF res[r].message = "Otp is expired"
                    THEN res[r].status = NotFoundError
                    ELSE res[r].status = InvalidInputError

\* ---- C8
GateFields(r) ==
    /\ req[r].verifyOtp
    /\ req[r].otpData # NoOtp
    /\ req[r].otpData.code = req[r].otp
    /\ req[r].otpData.context = RouteContext(r)

\* C8: a registration request is inside registerUser, or has issued any
\* Identity Store operation, only if verifyOtp marked it OTP-verified after
\* loading a record with the submitted code and the route's context; a request
\* not so marked has issued no Identity Store operation.
C8_GateAllOrNothing ==
    \A r \in Reqs :
        req[r].kind = "registerUser"
        => /\ (pc[r] \in {"reg_enter", "reg_find", "reg_create"}
                  \/ QueriesOf(r) \cap {"User.findOne", "User.create", "User.findById"} # {})
              => GateFields(r)
           /\ ~req[r].verifyOtp
              => /\ QueriesOf(r) \subseteq {"Otp.findOne"}
                 /\ pc[r] = "done" => res[r].status >= 400

\* A verified request created a user, and another request failed at the gate.
C8_Witness ==
    \E r1, r2 \in Reqs :
        /\ Finished(r1, "registerUser") /\ res[r1].status = Created
        /\ Len(users) = 2 /\ users[2].email = req[r1].email
        /\ Finished(r2, "registerUser") /\ ~req[r2].verifyOtp
        /\ res[r2].message = "Invalid otp"

\* ---- C9
\* C9: a refreshAccessToken request whose presented token is not the stored
\* refresh token of the token's user ends with an auth error (401) on the step
\* that examines it: no token is generated or sent and no user record changes.
C9_StaleTokenRejected ==
    [][\A r \in Reqs :
          (pc[r] = "rf_find" /\ pc'[r] # "rf_find"
              /\ LET t == req'[r].incomingRefreshToken
                 IN t.uid \notin UserIds \/ t # users[t.uid].refreshToken)
          => /\ pc'[r] = "done"
             /\ res'[r].status = AuthError
             /\ res'[r].refreshToken = NoToken
             /\ users' = users
             /\ issued' = issued
             /\ nextSerial' = nextSerial]_vars

\* A signed token that was sent to a client and has since been replaced was
\* presented and refused.
C9_Witness ==
    \E r \in Reqs :
        /\ Finished(r, "refreshAccessToken")
        /\ res[r].status = Unauthorized
        /\ req[r].incomingRefreshToken \in issued
        /\ JwtVerify(req[r].incomingRefreshToken)
        /\ users[req[r].incomingRefreshToken.uid].refreshToken # NoToken
        /\ users[req[r].incomingRefreshToken.uid].refreshToken
               # req[r].incomingRefreshToken

C11_UnsubscribeShowsInProfile ==
    [][\A v, c \in UserIds :
         ( /\ Edge(v, c) \in subscriptions
           /\ subscriptions' = subscriptions \ {Edge(v, c)} )
         => /\ ChannelProfile(c, v).isSubscribed
            /\ ~ ChannelProfile(c, v)'.isSubscribed
            /\ ChannelProfile(c, v)'.subscribersCount
                 = ChannelProfile(c, v).subscribersCount - 1]_vars

\* The same viewer asked for the same channel before and after unsubscribing:
\* the earlier answer says subscribed, the later one says not and counts one
\* subscriber less, another subscriber being left.
C11_Witness ==
    \E r1, r2 \in Reqs :
        /\ r1 # r2
        /\ Finished(r1, "getUserChannelProfile") /\ res[r1].status = Ok
        /\ Finished(r2, "getUserChannelProfile") /\ res[r2].status = Ok
        /\ req[r1].user = req[r2].user /\ req[r1].channel = req[r2].channel
        /\ req[r1].user # NoUser
        /\ res[r1].isSubscribed /\ ~ res[r2].isSubscribed
        /\ res[r1].subscribersCount = 2 /\ res[r2].subscribersCount = 1
        /\ req[r2].subscribers = Subscribers(req[r2].channel)
        /\ Edge(req[r1].user, req[r1].channel) \notin subscriptions

\* ------------------------------------------------------------ C12
\* C12: in every getUserChannelProfile response subscribersCount and
\* isSubscribed come from one snapshot of the channel's subscriber edges, also
\* while subscriptions change: the snapshot is the set of edges of the channel
\* at one moment, the count is its size and isSubscribed is true exactly when
\* the viewer is the subscriber of one of its edges (so isSubscribed implies a
\* count of at least 1), and it is false when the viewer identity is absent.
C12_CountAndFlagFromOneSnapshot ==
    [][\A r \in Reqs :
         /\ (pc[r] = "gp_match" /\ pc'[r] = "gp_lookup2")
            => req'[r].subscribers
                 = {e \in subscriptions : e.channel = req'[r].channel}
         /\ (pc[r] = "gp_lookup2" /\ pc'[r] = "done")
            => /\ res'[r].status = Ok
               /\ res'[r].subscribersCount = Cardinality(req[r].subscribers)
               /\ res'[r].isSubscribed
                    = (Edge(req[r].user, req[r].channel) \in req[r].subscribers)
               /\ res'[r].isSubscribed => res'[r].subscribersCount >= 1
               /\ req[r].user = NoUser => ~ res'[r].isSubscribed]_vars

\* A response computed from a snapshot that a concurrent unsubscribe has since
\* made stale, and a response to an anonymous viewer of a channel that has
\* subscribers.
C12_Witness ==
    \E r1, r2 \in Reqs :
        /\ r1 # r2
        /\ Finished(r1, "getUserChannelProfile") /\ res[r1].status = Ok
        /\ res[r1].isSubscribed
        /\ req[r1].subscribers # Subscribers(req[r1].channel)
        /\ "User.aggregate" \in QueriesOf(r1)
        /\ Finished(r2, "getUserChannelProfile") /\ res[r2].status = Ok
        /\ req[r2].user = NoUser /\ res[r2].subscribersCount >= 1

\* ------------------------------------------------------------ C13
Uploads == {"updateUserAvatar", "updateUserCoverImage"}

\* C13: updateUserAvatar with a file whose mimetype is not an image ends with
\* 400 and the temporary local copy removed, and it performs no remote
\* upload, no remote delete and no update of the user record.
C13_NonImageAvatarRejected ==
    [][\A r \in Reqs :
         ( /\ pc[r] = "up_enter" /\ pc'[r] # "up_enter"
           /\ req[r].kind = "updateUserAvatar"
           /\ req[r].file # NoFile /\ ~ IncludesImage(req[r].file) )
         => /\ pc'[r] = "done"
            /\ res'[r].status = ValidationError
            /\ LocalPath(r) \notin tmpFiles'
            /\ req'[r].queries = <<>>
            /\ cloud' = cloud /\ nextUrl' = nextUrl /\ users' = users]_vars

\* A text file sent as avatar was refused and its local copy is gone.
C13_Witness ==
    \E r \in Reqs :
        /\ Finished(r, "updateUserAvatar")
        /\ req[r].file = "text/plain"
        /\ res[r].status = ValidationError
        /\ LocalPath(r) \notin tmpFiles

\* ------------------------------------------------------------ C14
\* C14: for every avatar or cover upload that carries a file, the temporary
\* local path has been removed by the time the handler has ended, whichever
\* way it ended (validation failure, upload failure, store failure, success).
C14_LocalPathRemovedOnExit ==
    \A r \in Reqs :
        (pc[r] = "done" /\ req[r].kind \in Uploads /\ req[r].file # NoFile)
        => LocalPath(r) \notin tmpFiles

\* ------------------------------------------------------------ C15
\* C15: an old image is deleted from the media storage only after the
\* replacement upload has succeeded: the delete is called only by a request
\* that holds the secure_url of its own upload, every image that leaves the
\* storage is the old image of such a request, and a request whose upload
\* fails or returns no secure_url ends without having called the delete.
C15_DeleteOnlyAfterUpload ==
    [][/\ \A r \in Reqs :
            (req'[r].kind \in Uploads /\ "cloudinary.delete" \in QueriesOf(r)')
            => /\ req'[r].secure_url # NoUrl
               /\ req'[r].queries[1] = "cloudinary.upload"
       /\ cloud \ cloud' # {}
            => \E r \in Reqs :
                 /\ pc[r] \in {"av_delete", "cv_delete"} /\ pc'[r] # pc[r]
                 /\ req[r].secure_url # NoUrl
                 /\ cloud \ cloud' = {req[r].oldImage}
       /\ \A r \in Reqs :
            (pc[r] \in {"av_upload", "cv_upload"} /\ pc'[r] = "done")
            => /\ res'[r].status = ServerError
               /\ cloud \subseteq cloud'
               /\ "cloudinary.delete" \notin QueriesOf(r)']_vars

\* One cover update replaced an earlier cover image (the old one is gone, the
\* new one is stored), and another ended on a failed upload with the stored
\* images still in the storage.
C15_Witness ==
    \E r1, r2 \in Reqs :
        /\ r1 # r2
        /\ Finished(r1, "updateUserCoverImage") /\ res[r1].status = Ok
        /\ "cloudinary.delete" \in QueriesOf(r1)
        /\ req[r1].oldImage \notin cloud /\ req[r1].secure_url \in cloud
        /\ pc[r2] = "done" /\ req[r2].kind \in Uploads
        /\ req[r2].queries = <<"cloudinary.upload">>
        /\ res[r2].status = ServerError
        /\ users[req[r2].user].coverImage \in cloud

\* ------------------------------------------------------------ C16
\* C16: updateUserAvatar with a valid image whose upload succeeds completes
\* successfully: it answers 200 with the updated user document, whose avatar
\* is the new URL.
C16_AvatarUpdateSucceeds ==
    \A r \in Reqs :
        (Finished(r, "updateUserAvatar") /\ req[r].secure_url # NoUrl)
        => /\ res[r].status = Ok
           /\ res[r].avatar = req[r].secure_url

\* ------------------------------------------------------------ C19
\* C19: after any sequence of updateUserAvatar requests the stored avatar URL
\* of a user refers to an image that is in the media storage.
C19_StoredAvatarExists ==
    \A u \in UserIds : users[u].avatar # NoUrl => users[u].avatar \in cloud

\* ------------------------------------------------------------ C17
\* C17: a refresh token is exchanged successfully at most once under any
\* interleaving: of two refresh requests that presented the same issued
\* token, at most one was answered with new tokens.
C17_ExchangedAtMostOnce ==
    \A r1, r2 \in Reqs :
        ( /\ r1 # r2
          /\ Finished(r1, "refreshAccessToken")
          /\ Finished(r2, "refreshAccessToken")
          /\ req[r1].incomingRefreshToken \in issued
          /\ req[r1].incomingRefreshToken = req[r2].incomingRefreshToken )
        => ~ (res[r1].status = Ok /\ res[r2].status = Ok)

\* ------------------------------------------------------------ C18
\* C18: for one OTP record at most one request is ever marked OTP-verified:
\* the step that marks a request takes a stored record out of the store, so
\* a request is never marked once the record it loaded has been consumed.
C18_OneVerificationPerRecord ==
    [][\A r \in Reqs :
         (~ req[r].verifyOtp /\ req'[r].verifyOtp)
         => /\ otps[req[r].email] # NoOtp
            /\ otps'[req[r].email] = NoOtp]_vars

\* ------------------------------------------------------------ C20
\* C20: registerUser's conflict check is case-normalized: when the check runs
\* and a user exists whose stored username equals the lowercased candidate
\* (or whose email equals the candidate email), the request ends with 409 and
\* no user is created.
C20_ConflictCheckNormalized ==
    [][\A r \in Reqs :
         ( /\ pc[r] = "reg_find" /\ pc'[r] # "reg_find"
           /\ \E u \in UserIds : \/ users[u].username = ToLowerCase(req[r].username)
                                 \/ users[u].email = req[r].email )
         => /\ pc'[r] = "done"
            /\ res'[r].status = Conflict
            /\ users' = users]_vars

====
